---- MODULE Spec2Model ----
(***************************************************************************)
(* Model of the xad-forge execution adapters (ForgeBackend,                *)
(* ForgeBackendCAPI, ForgeBackendAVX, ForgeBackendAVX_CAPI): translation   *)
(* of an xad::JITGraph into a Forge graph, ownership of the four native    *)
(* handles (graph, config, kernel, buffer) and the state checks of the     *)
(* data operations.                                                        *)
(*                                                                         *)
(* The Forge library is external.  Its graph builder is modelled as an     *)
(* append-only node list whose ids are 0,1,2,... in creation order; every  *)
(* native call that can report an error may fail (failure injection).      *)
(* Handles are small integers, 0 is nullptr, and a destroyed handle's id   *)
(* may be handed out again, as an allocator does with addresses.           *)
(***************************************************************************)
EXTENDS Integers, Sequences, FiniteSets, TLC

\* ------------------------------------------------------------------ bounds
\* the n-th call of a looped native call (add_constant, add_input, ...) that
\* failure injection can make fail ranges over 1..MaxFailNth
MaxFailNth == 1
\* index and count arguments of the data operations range over 0..MaxArg
MaxArg == 2

\* ------------------------------------------------------------ basic values
Adapters == {"p", "q"}
Kinds == {"ForgeBackend", "ForgeBackendCAPI", "ForgeBackendAVX", "ForgeBackendAVX_CAPI"}
NullH == 0
\* native handles: handle id = 4 * (row - 1) + type number; one compile() takes
\* its handles from one row, and there is a row per adapter and one more
HandleTypes == <<"graph", "config", "kernel", "buffer">>
Rows == 1..(Cardinality(Adapters) + 1)
HeapIds == 1..(4 * (Cardinality(Adapters) + 1))
RowOf(h) == ((h - 1) \div 4) + 1
HandleId(row, type) ==
    4 * (row - 1) + (CHOOSE i \in 1..4 : HandleTypes[i] = type)

Range(s) == {s[i] : i \in 1..Len(s)}

\* ----------------------------------------------------------- source graphs
\* xad::JITGraph node: op, operand indices a/b/c, imm, IsActive flag
SNode(op, a, b, c, imm, act) ==
    [op |-> op, a |-> a, b |-> b, c |-> c, imm |-> imm, active |-> act]
InputNode == SNode("INPUT", 0, 0, 0, 0, TRUE)
ConstNode(idx) == SNode("CONSTANT", 0, 0, 0, idx, FALSE)
AddNode(a, b) == SNode("ADD", a, b, 0, 0, TRUE)
MulNode(a, b) == SNode("MUL", a, b, 0, 0, TRUE)

JITGraph(nodes, pool, ins, outs) ==
    [nodes |-> nodes, const_pool |-> pool, input_ids |-> ins, output_ids |-> outs]
nodeCount(G) == Len(G.nodes)

\* f(x) = 5 * x
GLin == JITGraph(<<InputNode, ConstNode(0), MulNode(0, 1)>>, <<5>>, <<0>>, <<2>>)
\* f(x, y) = x + y : same node count as GLin, other structure
GSum == JITGraph(<<InputNode, InputNode, AddNode(0, 1)>>, <<>>, <<0, 1>>, <<2>>)
\* two CONSTANT nodes sharing pool slot 0, two outputs
GShare == JITGraph(<<InputNode, ConstNode(0), ConstNode(0), AddNode(1, 2)>>,
                   <<5>>, <<0>>, <<3, 0>>)
\* node 1 names itself as operand b (not in topological order)
GSelf == JITGraph(<<InputNode, AddNode(0, 1)>>, <<5>>, <<0>>, <<1>>)
\* CONSTANT node with pool index 1 in a pool of size 1; node count of GLin
GBadConst == JITGraph(<<InputNode, ConstNode(1), MulNode(0, 1)>>, <<5>>, <<0>>, <<2>>)

\* f(x) = x : a single INPUT node that is also the output
GOne == JITGraph(<<InputNode>>, <<>>, <<0>>, <<0>>)

\* f(x) = x + 5 * 5 : two operation nodes, the first without any input operand
GChain == JITGraph(<<InputNode, ConstNode(0), MulNode(1, 1), AddNode(0, 2)>>,
                   <<5>>, <<0>>, <<3>>)

\* one input and no registered output
GNoOut == JITGraph(<<InputNode>>, <<>>, <<0>>, <<>>)

NamedGraphs == {GLin, GSum, GShare, GSelf, GBadConst, GChain, GNoOut}

\* strict topological order: operands of a non-INPUT, non-CONSTANT node precede it
TopologicalOrder(G) ==
    \A i \in 1..nodeCount(G) :
        G.nodes[i].op \notin {"INPUT", "CONSTANT"} =>
            G.nodes[i].a < i - 1 /\ G.nodes[i].b < i - 1 /\ G.nodes[i].c < i - 1
\* every CONSTANT node's pool index is below the pool size
ConstIndicesInRange(G) ==
    \A i \in 1..nodeCount(G) :
        G.nodes[i].op = "CONSTANT" => G.nodes[i].imm < Len(G.const_pool)
ValidGraph(G) == TopologicalOrder(G) /\ ConstIndicesInRange(G)

\* ------------------------------------------------- Forge graph (external)
\* needsGradient is the node's current flag, createdWith the needsGradient
\* argument the node was created with
TNode(op, a, b, c, imm, act, ng) ==
    [op |-> op, a |-> a, b |-> b, c |-> c, imm |-> imm, active |-> act,
     needsGradient |-> ng, createdWith |-> ng]
EmptyTG == [nodes |-> <<>>, constPool |-> <<>>, outputs |-> <<>>,
            diffInputs |-> <<>>, propagated |-> FALSE]

\* each add call returns the id Len(tg.nodes) and appends one node
forge_graph_add_constant(tg, v) ==
    [tg EXCEPT !.constPool = Append(@, v),
               !.nodes = Append(@, TNode("CONSTANT", 0, 0, 0, Len(tg.constPool), FALSE, FALSE))]
\* an add_input that hands out an id without creating the node
forge_graph_add_input_noNode(tg) == tg

forge_graph_add_input(tg) ==
    [tg EXCEPT !.nodes = Append(@, TNode("INPUT", 0, 0, 0, 0, TRUE, FALSE))]
forge_graph_add_node(tg, op, a, b, c, imm, act, ng) ==
    [tg EXCEPT !.nodes = Append(@, TNode(op, a, b, c, imm, act, ng))]
forge_graph_mark_output(tg, id) == [tg EXCEPT !.outputs = Append(@, id)]
forge_graph_mark_diff_input(tg, id) == [tg EXCEPT !.diffInputs = Append(@, id)]

\* needsGradient sweep in increasing id order (forge_graph_propagate_gradients)
OperandIds(n) ==
    IF n.op \in {"INPUT", "CONSTANT"} THEN <<>>
    ELSE IF n.op \in {"ADD", "MUL"} THEN <<n.a, n.b>>
    ELSE <<n.a, n.b, n.c>>

RECURSIVE SweepFlags(_, _, _)
SweepFlags(tg, i, flags) ==
    IF i > Len(tg.nodes) THEN flags
    ELSE LET n == tg.nodes[i]
             ops == OperandIds(n)
             fromOps == \E k \in 1..Len(ops) :
                           ops[k] + 1 <= Len(flags) /\ flags[ops[k] + 1]
             isDiff == (i - 1) \in Range(tg.diffInputs)
         IN SweepFlags(tg, i + 1, Append(flags, isDiff \/ fromOps))

forge_graph_propagate_gradients(tg) ==
    LET flags == SweepFlags(tg, 1, <<>>)
    IN [tg EXCEPT !.nodes = [i \in 1..Len(tg.nodes) |->
                                [tg.nodes[i] EXCEPT !.needsGradient = flags[i]]],
                  !.propagated = TRUE]

\* -------------------------------------------------------- failure injection
\* fail = [step, nth]: the nth native call of kind `step` made by one compile()
\* reports an error; NoFail lets every native call succeed
NoFail == [step |-> "none", nth |-> 0]
LoopSteps == {"constant", "input", "node", "markOutput", "markDiffInput"}
SingleSteps == {"graph", "propagate", "config", "instructionSet", "kernel", "buffer"}
FailChoices ==
    {NoFail} \cup {[step |-> s, nth |-> k] : s \in LoopSteps, k \in 1..MaxFailNth}
             \cup {[step |-> s, nth |-> 1] : s \in SingleSteps}
Hits(fail, step, nth) == fail.step = step /\ fail.nth = nth

\* ------------------------------------------------------ GraphTranslator
\* The translation state st = [err, tg, inputIds, outputIds, nodeIdMap,
\* constNodeIds, nAdd]: err is the step that threw ("none" while none has), tg the
\* Forge graph built so far, inputIds/outputIds the members inputIds_/outputIds_,
\* nAdd the number of forge_graph_add_node calls made.

\* forge_graph_create(); oldIn/oldOut are inputIds_/outputIds_ on entry
CreateGraph(fail, oldIn, oldOut) ==
    [err |-> IF Hits(fail, "graph", 1) THEN "graph" ELSE "none",
     tg |-> EmptyTG, inputIds |-> oldIn, outputIds |-> oldOut,
     nodeIdMap |-> <<>>, constNodeIds |-> <<>>, nAdd |-> 0]

\* constant pre-registration loop: one forge_graph_add_constant per pool entry
RECURSIVE AddConstants(_, _, _, _)
AddConstants(G, fail, i, st) ==
    IF i > Len(G.const_pool) \/ st.err # "none" THEN st
    ELSE AddConstants(G, fail, i + 1,
            IF Hits(fail, "constant", i)
            THEN [st EXCEPT !.err = "constant"]
            ELSE [st EXCEPT !.tg = forge_graph_add_constant(@, G.const_pool[i]),
                            !.constNodeIds = Append(@, Len(st.tg.nodes))])

\* a node loop that passes the source operand indices on without remapping
Remap_sourceIndex(x, i, nodeIdMap) == x

\* operand remap: "if (a < i) a = nodeIdMap[a];" with i the 0-based node index
Remap(x, i, nodeIdMap) == IF x < i THEN nodeIdMap[x + 1] ELSE x

\* sequential node pass of ForgeBackend / ForgeBackendCAPI / ForgeBackendAVX;
\* i is the 1-based position
RECURSIVE TranslateNodes(_, _, _, _)
TranslateNodes(G, fail, i, st) ==
    IF i > nodeCount(G) \/ st.err # "none" THEN st
    ELSE TranslateNodes(G, fail, i + 1,
            IF G.nodes[i].op = "INPUT"
            THEN IF Hits(fail, "input", Len(st.inputIds) + 1)
                 THEN [st EXCEPT !.err = "input"]
                 ELSE [st EXCEPT !.tg = forge_graph_add_input(@),
                                 !.inputIds = Append(@, Len(st.tg.nodes)),
                                 !.nodeIdMap = Append(@, Len(st.tg.nodes))]
            ELSE IF G.nodes[i].op = "CONSTANT"
            THEN IF G.nodes[i].imm >= Len(st.constNodeIds)
                 THEN [st EXCEPT !.err = "constIndex"]
                 ELSE [st EXCEPT !.nodeIdMap =
                                    Append(@, st.constNodeIds[G.nodes[i].imm + 1])]
            ELSE IF Hits(fail, "node", st.nAdd + 1)
                 THEN [st EXCEPT !.err = "node"]
                 ELSE [st EXCEPT
                         !.tg = forge_graph_add_node(@, G.nodes[i].op,
                                    Remap(G.nodes[i].a, i - 1, st.nodeIdMap),
                                    Remap(G.nodes[i].b, i - 1, st.nodeIdMap),
                                    Remap(G.nodes[i].c, i - 1, st.nodeIdMap),
                                    G.nodes[i].imm, G.nodes[i].active, FALSE),
                         !.nodeIdMap = Append(@, Len(st.tg.nodes)),
                         !.nAdd = @ + 1])

\* node loop of ForgeBackendAVX_CAPI: every source node goes to
\* forge_graph_add_node unchanged, the ids of INPUT nodes are collected
RECURSIVE TranslateNodesRaw(_, _, _, _)
TranslateNodesRaw(G, fail, i, st) ==
    IF i > nodeCount(G) \/ st.err # "none" THEN st
    ELSE TranslateNodesRaw(G, fail, i + 1,
            IF Hits(fail, "node", st.nAdd + 1)
            THEN [st EXCEPT !.err = "node"]
            ELSE [st EXCEPT
                    !.tg = forge_graph_add_node(@, G.nodes[i].op, G.nodes[i].a,
                               G.nodes[i].b, G.nodes[i].c, G.nodes[i].imm,
                               G.nodes[i].active, FALSE),
                    !.inputIds = IF G.nodes[i].op = "INPUT"
                                 THEN Append(@, Len(st.tg.nodes)) ELSE @,
                    !.nodeIdMap = Append(@, Len(st.tg.nodes)),
                    !.nAdd = @ + 1])

\* output marking of the three remapping variants: push the id, then mark it
RECURSIVE MarkOutputs(_, _, _, _)
MarkOutputs(G, fail, k, st) ==
    IF k > Len(G.output_ids) \/ st.err # "none" THEN st
    ELSE MarkOutputs(G, fail, k + 1,
            IF Hits(fail, "markOutput", k)
            THEN [st EXCEPT !.outputIds = Append(@, st.nodeIdMap[G.output_ids[k] + 1]),
                            !.err = "markOutput"]
            ELSE [st EXCEPT !.outputIds = Append(@, st.nodeIdMap[G.output_ids[k] + 1]),
                            !.tg = forge_graph_mark_output(@,
                                       st.nodeIdMap[G.output_ids[k] + 1])])

\* ForgeBackendAVX_CAPI: mark each raw output id
RECURSIVE MarkOutputsRaw(_, _, _, _)
MarkOutputsRaw(G, fail, k, st) ==
    IF k > Len(G.output_ids) \/ st.err # "none" THEN st
    ELSE MarkOutputsRaw(G, fail, k + 1,
            IF Hits(fail, "markOutput", k)
            THEN [st EXCEPT !.err = "markOutput"]
            ELSE [st EXCEPT !.tg = forge_graph_mark_output(@, G.output_ids[k])])

\* diff-input marking; ids is the list of target ids to mark, in order
RECURSIVE MarkDiffInputs(_, _, _, _)
MarkDiffInputs(ids, fail, k, st) ==
    IF k > Len(ids) \/ st.err # "none" THEN st
    ELSE MarkDiffInputs(ids, fail, k + 1,
            IF Hits(fail, "markDiffInput", k)
            THEN [st EXCEPT !.err = "markDiffInput"]
            ELSE [st EXCEPT !.tg = forge_graph_mark_diff_input(@, ids[k])])

\* the passes of compile() in program order; a pass is not entered once a step
\* has thrown, so the member lists stay as the throwing step left them
ConstantPass(G, fail, st) == AddConstants(G, fail, 1, st)
\* inStart is what inputIds_ holds when the node loop starts
NodePass(G, fail, inStart, st) ==
    IF st.err # "none" THEN st
    ELSE TranslateNodes(G, fail, 1, [st EXCEPT !.inputIds = inStart])
NodePassRaw(G, fail, inStart, st) ==
    IF st.err # "none" THEN st
    ELSE TranslateNodesRaw(G, fail, 1, [st EXCEPT !.inputIds = inStart])
OutputPass(G, fail, st) ==
    IF st.err # "none" THEN st
    ELSE MarkOutputs(G, fail, 1, [st EXCEPT !.outputIds = <<>>])
OutputPassRaw(G, fail, st) ==
    IF st.err # "none" THEN st
    ELSE MarkOutputsRaw(G, fail, 1, [st EXCEPT !.outputIds = G.output_ids])
DiffInputPass(G, fail, st) ==
    IF st.err # "none" THEN st
    ELSE MarkDiffInputs([k \in 1..Len(G.input_ids) |->
                            st.nodeIdMap[G.input_ids[k] + 1]], fail, 1, st)
DiffInputPassRaw(G, fail, st) ==
    IF st.err # "none" THEN st ELSE MarkDiffInputs(G.input_ids, fail, 1, st)
PropagatePass(fail, st) ==
    IF st.err # "none" THEN st
    ELSE IF Hits(fail, "propagate", 1) THEN [st EXCEPT !.err = "propagate"]
    ELSE [st EXCEPT !.tg = forge_graph_propagate_gradients(@)]

\* Translation part of compile(), from forge_graph_create() up to gradient
\* propagation.  The result carries the member lists as the call leaves them and
\* err, the step that threw ("none" when translation went through).
TranslateWith(kind, G, fail, oldIn, oldOut, inStart) ==
    IF kind = "ForgeBackendAVX_CAPI"
    THEN DiffInputPassRaw(G, fail,
           OutputPassRaw(G, fail,
             NodePassRaw(G, fail, inStart, CreateGraph(fail, oldIn, oldOut))))
    ELSE PropagatePass(fail,
           DiffInputPass(G, fail,
             OutputPass(G, fail,
               NodePass(G, fail, inStart,
                 ConstantPass(G, fail, CreateGraph(fail, oldIn, oldOut))))))

\* a compile() that forgets inputIds_.clear() before the node loop
Translate_keepInputIds(kind, G, fail, oldIn, oldOut) ==
    TranslateWith(kind, G, fail, oldIn, oldOut, oldIn)

\* the code clears inputIds_ before the node loop
Translate(kind, G, fail, oldIn, oldOut) ==
    TranslateWith(kind, G, fail, oldIn, oldOut, <<>>)

\* ------------------------------------------------------------ native heap
\* a heap cell: type "free" or the handle type; g/cfg/k name the handles a
\* kernel or buffer was created from; tg is the content of a graph handle
FreeCell == [type |-> "free", g |-> NullH, cfg |-> NullH, k |-> NullH,
             tg |-> EmptyTG, iset |-> ""]
Live(hp) == {h \in HeapIds : hp[h].type # "free"}
\* rows in which no handle is alive; forge_*_create returns fresh storage, which
\* the model names by the lowest such row
FreeRows(hp) == {r \in Rows : \A h \in Live(hp) : RowOf(h) # r}
FreshRow(hp) == CHOOSE r \in FreeRows(hp) : \A r2 \in FreeRows(hp) : r <= r2
Put(hp, h, cell) == [hp EXCEPT ![h] = cell]

\* handles still alive that were created from handle h
Dependents(hp, h) == {d \in Live(hp) : d # h /\ (hp[d].g = h \/ hp[d].k = h)}

\* one forge_*_destroy(h): frees the cell and logs what was destroyed and which
\* dependents were alive at that moment; destroying a cell that is not alive
\* is a double destroy
DestroyOne(c, h) ==
    IF h = NullH THEN c
    ELSE [c EXCEPT
            !.hp = Put(@, h, FreeCell),
            !.log = Append(@, [h |-> h, type |-> c.hp[h].type,
                               deps |-> Dependents(c.hp, h),
                               wasLive |-> h \in Live(c.hp)])]

\* ---------------------------------------------------------------- adapter
\* the members of one adapter object; alive = constructed and not yet destroyed
Fresh == [alive |-> TRUE, graph_ |-> NullH, config_ |-> NullH, kernel_ |-> NullH,
          buffer_ |-> NullH, inputIds_ |-> <<>>, outputIds_ |-> <<>>,
          lastNodeCount_ |-> 0]
NoObject == [Fresh EXCEPT !.alive = FALSE]

Held(adr) == {adr.graph_, adr.config_, adr.kernel_, adr.buffer_} \ {NullH}
\* the test made by forward()/forwardAndBackward(): kernel_ && buffer_
Compiled(adr) == adr.kernel_ # NullH /\ adr.buffer_ # NullH

\* a cleanup() that destroys the kernel but leaves kernel_ set
cleanup_staleKernel(adr, hp) ==
    LET c1 == DestroyOne([hp |-> hp, log |-> <<>>], adr.buffer_)
        c2 == DestroyOne(c1, adr.kernel_)
        c3 == DestroyOne(c2, adr.config_)
        c4 == DestroyOne(c3, adr.graph_)
    IN [ad |-> [adr EXCEPT !.buffer_ = NullH, !.config_ = NullH, !.graph_ = NullH],
        hp |-> c4.hp, log |-> c4.log]

\* a cleanup() that destroys in creation order: graph, config, kernel, buffer
cleanup_graphFirst(adr, hp) ==
    LET c1 == DestroyOne([hp |-> hp, log |-> <<>>], adr.graph_)
        c2 == DestroyOne(c1, adr.config_)
        c3 == DestroyOne(c2, adr.kernel_)
        c4 == DestroyOne(c3, adr.buffer_)
    IN [ad |-> [adr EXCEPT !.buffer_ = NullH, !.kernel_ = NullH,
                           !.config_ = NullH, !.graph_ = NullH],
        hp |-> c4.hp, log |-> c4.log]

\* cleanup(): destroy buffer, kernel, config, graph (those that are set) and
\* null the members; returns the adapter, the heap and the destroy log
cleanup(adr, hp) ==
    LET c1 == DestroyOne([hp |-> hp, log |-> <<>>], adr.buffer_)
        c2 == DestroyOne(c1, adr.kernel_)
        c3 == DestroyOne(c2, adr.config_)
        c4 == DestroyOne(c3, adr.graph_)
    IN [ad |-> [adr EXCEPT !.buffer_ = NullH, !.kernel_ = NullH,
                           !.config_ = NullH, !.graph_ = NullH],
        hp |-> c4.hp, log |-> c4.log]

\* a reset() that only calls cleanup()
reset_cleanupOnly(adr, hp) == cleanup(adr, hp)

\* reset(): cleanup, clear both id lists (ForgeBackendCAPI: lastNodeCount_ = 0)
reset(adr, hp) ==
    LET c == cleanup(adr, hp)
    IN [c EXCEPT !.ad = [@ EXCEPT !.inputIds_ = <<>>, !.outputIds_ = <<>>,
                                  !.lastNodeCount_ = 0]]

\* compile(jitGraph) step by step.  The compile state r = [ad, hp, log, res,
\* skipped, loadStep]: the adapter and heap so far, the destroy log of cleanup(),
\* res ("ok" while no step has thrown, else the step that threw), skipped (the
\* guard returned early) and loadStep (loadCustomBackendFromEnv() was reached).
\* A step is not entered once an earlier one has thrown.

\* graph_ = forge_graph_create() and the translation t into it; c is what
\* cleanup() returned, row the heap row the new handles come from
StoreGraph(c, row, t) ==
    IF t.err = "graph"
    THEN [ad |-> [c.ad EXCEPT !.graph_ = NullH], hp |-> c.hp, log |-> c.log,
          res |-> "graph", skipped |-> FALSE, loadStep |-> FALSE]
    ELSE [ad |-> [c.ad EXCEPT !.graph_ = HandleId(row, "graph"),
                              !.inputIds_ = t.inputIds,
                              !.outputIds_ = t.outputIds],
          hp |-> Put(c.hp, HandleId(row, "graph"),
                     [FreeCell EXCEPT !.type = "graph", !.tg = t.tg]),
          log |-> c.log,
          res |-> IF t.err = "none" THEN "ok" ELSE t.err,
          skipped |-> FALSE, loadStep |-> FALSE]

\* loadCustomBackendFromEnv() (ForgeBackend only), then config_ = ForgeConfig /
\* forge_config_create_*()
CreateConfig(kind, fail, r) ==
    IF r.res # "ok" THEN r
    ELSE IF Hits(fail, "config", 1)
    THEN [r EXCEPT !.ad.config_ = NullH, !.res = "config",
                   !.loadStep = (kind = "ForgeBackend")]
    ELSE [r EXCEPT !.ad.config_ = HandleId(RowOf(r.ad.graph_), "config"),
                   !.hp = Put(@, HandleId(RowOf(r.ad.graph_), "config"),
                              [FreeCell EXCEPT !.type = "config"]),
                   !.loadStep = (kind = "ForgeBackend")]

\* the instruction set a kernel is compiled for
InstructionSet(kind, customInstSet) ==
    IF kind = "ForgeBackend"
    THEN (IF customInstSet THEN "custom" ELSE "SSE2_SCALAR")
    ELSE IF kind = "ForgeBackendCAPI" THEN "SSE2_SCALAR"
    ELSE "AVX2_PACKED"

\* instruction-set selection (ForgeBackend: the custom set named by the
\* environment may be rejected), then kernel_ = forge_compile(graph_, config_)
CreateKernel(kind, fail, customInstSet, r) ==
    IF r.res # "ok" THEN r
    ELSE IF kind = "ForgeBackend" /\ customInstSet /\ Hits(fail, "instructionSet", 1)
    THEN [r EXCEPT !.res = "instructionSet"]
    ELSE IF Hits(fail, "kernel", 1)
    THEN [r EXCEPT !.ad.kernel_ = NullH, !.res = "kernel"]
    ELSE [r EXCEPT !.ad.kernel_ = HandleId(RowOf(r.ad.graph_), "kernel"),
                   !.hp = Put(@, HandleId(RowOf(r.ad.graph_), "kernel"),
                              [FreeCell EXCEPT !.type = "kernel",
                                               !.g = r.ad.graph_,
                                               !.cfg = r.ad.config_,
                                               !.iset = InstructionSet(kind, customInstSet)])]

\* buffer_ = forge_buffer_create(graph_, kernel_); ForgeBackendCAPI then
\* remembers the node count
CreateBuffer(kind, G, fail, r) ==
    IF r.res # "ok" THEN r
    ELSE IF Hits(fail, "buffer", 1)
    THEN [r EXCEPT !.ad.buffer_ = NullH, !.res = "buffer"]
    ELSE [r EXCEPT !.ad.buffer_ = HandleId(RowOf(r.ad.graph_), "buffer"),
                   !.ad.lastNodeCount_ = IF kind = "ForgeBackendCAPI"
                                         THEN nodeCount(G) ELSE @,
                   !.hp = Put(@, HandleId(RowOf(r.ad.graph_), "buffer"),
                              [FreeCell EXCEPT !.type = "buffer",
                                               !.g = r.ad.graph_,
                                               !.k = r.ad.kernel_])]

\* a guard that compares the node count without testing kernel_
SkipsRecompile_countOnly(kind, adr, G) ==
    kind = "ForgeBackendCAPI" /\ adr.lastNodeCount_ = nodeCount(G)

\* recompilation guard of ForgeBackendCAPI::compile
SkipsRecompile(kind, adr, G) ==
    kind = "ForgeBackendCAPI" /\ adr.kernel_ # NullH /\ adr.lastNodeCount_ = nodeCount(G)

\* compile(jitGraph) after the guard and cleanup(): c is what cleanup() returned.
\* customInstSet: XAD_FORGE_INSTRUCTION_SET is set and not empty (read by
\* ForgeBackend only).
compileFrom(kind, c, G, fail, customInstSet) ==
    CreateBuffer(kind, G, fail,
      CreateKernel(kind, fail, customInstSet,
        CreateConfig(kind, fail,
          StoreGraph(c, FreshRow(c.hp),
                     Translate(kind, G, fail, c.ad.inputIds_, c.ad.outputIds_)))))

Skipped(adr, hp) ==
    [ad |-> adr, hp |-> hp, log |-> <<>>, res |-> "ok", skipped |-> TRUE,
     loadStep |-> FALSE]

\* a compile() that does not call cleanup() first
compile_noCleanup(kind, adr, hp, G, fail, customInstSet) ==
    IF SkipsRecompile(kind, adr, G) THEN Skipped(adr, hp)
    ELSE compileFrom(kind, [ad |-> adr, hp |-> hp, log |-> <<>>], G, fail, customInstSet)

\* compile(jitGraph): recompilation guard (ForgeBackendCAPI), cleanup(), then
\* translation, config, kernel and buffer
compile(kind, adr, hp, G, fail, customInstSet) ==
    IF SkipsRecompile(kind, adr, G) THEN Skipped(adr, hp)
    ELSE compileFrom(kind, cleanup(adr, hp), G, fail, customInstSet)

\* a move constructor that leaves the handles in the source as well
moveConstruct_keepSource(src) ==
    [dst |-> src, src |-> [src EXCEPT !.inputIds_ = <<>>, !.outputIds_ = <<>>]]

\* move constructor: take the members, null the source's handles; the moved-from
\* vectors are empty, lastNodeCount_ is copied and stays in the source
moveConstruct(src) ==
    [dst |-> src,
     src |-> [src EXCEPT !.graph_ = NullH, !.config_ = NullH, !.kernel_ = NullH,
                         !.buffer_ = NullH, !.inputIds_ = <<>>, !.outputIds_ = <<>>]]

\* move assignment onto dst (this != &other): cleanup(), then as the constructor
moveAssign(dst, src, hp) ==
    LET c == cleanup(dst, hp)
        m == moveConstruct(src)
    IN [dst |-> m.dst, src |-> m.src, hp |-> c.hp, log |-> c.log]

\* -------------------------------------------------------- data operations
\* each returns res (the error thrown, or "ok"), ub ("nullHandle" when a native
\* call was made on a null buffer/kernel, "emptyIndex" when element 0 of an empty
\* id list was read) and calls, the native calls made on the buffer in order
Outcome(res, ub, calls) == [res |-> res, ub |-> ub, calls |-> calls]
NullCall(adr) == IF adr.buffer_ = NullH THEN "nullHandle" ELSE "none"
\* one native call: fn is the forge_buffer_* / forge_execute function, id the
\* node id passed, slot the position in the caller's array that is read or written
NativeCall(fn, id, slot) == [fn |-> fn, id |-> id, slot |-> slot]
\* one call of fn per entry of ids, entry i with the caller's slot i
CallEach(fn, ids) == [i \in 1..Len(ids) |-> NativeCall(fn, ids[i], i - 1)]
\* executing without clearing the gradients first
ClearAndExecute_noClear == <<NativeCall("forge_execute", 0, 0)>>

\* forge_buffer_clear_gradients(buffer_); forge_execute(kernel_, buffer_)
ClearAndExecute ==
    <<NativeCall("forge_buffer_clear_gradients", 0, 0), NativeCall("forge_execute", 0, 0)>>

\* a setInput() that always writes the first input node
setInput_firstId(adr, inputIndex) ==
    IF inputIndex >= Len(adr.inputIds_) THEN Outcome("IndexOutOfRange", "none", <<>>)
    ELSE Outcome("ok", NullCall(adr),
                 <<NativeCall("forge_buffer_set_lanes", adr.inputIds_[1], inputIndex)>>)

\* ForgeBackend::setInput, ForgeBackendAVX(_CAPI)::setInputLanes
setInput(adr, inputIndex) ==
    IF inputIndex >= Len(adr.inputIds_) THEN Outcome("IndexOutOfRange", "none", <<>>)
    ELSE Outcome("ok", NullCall(adr),
                 <<NativeCall("forge_buffer_set_lanes",
                              adr.inputIds_[inputIndex + 1], inputIndex)>>)

\* ForgeBackendAVX(_CAPI)::getOutputLanes
getOutputLanes(adr, outputIndex) ==
    IF outputIndex >= Len(adr.outputIds_) THEN Outcome("IndexOutOfRange", "none", <<>>)
    ELSE Outcome("ok", NullCall(adr),
                 <<NativeCall("forge_buffer_get_lanes",
                              adr.outputIds_[outputIndex + 1], outputIndex)>>)

\* a ForgeBackendCAPI::forward that writes the inputs before it checks the counts
forward_writeFirst(kind, adr, numInputs, numOutputs, execFails) ==
    IF ~Compiled(adr) THEN Outcome("NotCompiled", "none", <<>>)
    ELSE IF kind = "ForgeBackendCAPI"
              /\ (numInputs # Len(adr.inputIds_) \/ numOutputs # Len(adr.outputIds_))
    THEN Outcome("CountMismatch", "none",
                 CallEach("forge_buffer_set_value", adr.inputIds_))
    ELSE Outcome("ok", "none",
                 ClearAndExecute \o CallEach("forge_buffer_get_lanes", adr.outputIds_))

\* forward(): ForgeBackend takes no counts; ForgeBackendCAPI checks them and
\* writes the inputs itself
forward(kind, adr, numInputs, numOutputs, execFails) ==
    IF ~Compiled(adr) THEN Outcome("NotCompiled", "none", <<>>)
    ELSE IF kind = "ForgeBackendCAPI" /\ numInputs # Len(adr.inputIds_)
    THEN Outcome("CountMismatch", "none", <<>>)
    ELSE IF kind = "ForgeBackendCAPI" /\ numOutputs # Len(adr.outputIds_)
    THEN Outcome("CountMismatch", "none", <<>>)
    ELSE IF kind = "ForgeBackendCAPI"
    THEN IF execFails
         THEN Outcome("ExecutionFailed", "none",
                      CallEach("forge_buffer_set_value", adr.inputIds_) \o ClearAndExecute)
         ELSE Outcome("ok", "none",
                      CallEach("forge_buffer_set_value", adr.inputIds_) \o ClearAndExecute
                        \o CallEach("forge_buffer_get_value", adr.outputIds_))
    ELSE IF execFails THEN Outcome("ExecutionFailed", "none", ClearAndExecute)
    ELSE Outcome("ok", "none",
                 ClearAndExecute \o CallEach("forge_buffer_get_lanes", adr.outputIds_))

\* a forwardAndBackward() that reads outputs and gradients without testing
\* what forge_execute returned
forwardAndBackward_readsOnFailure(kind, adr, numInputs, numOutputs, outputAdjoints, execFails, garbage) ==
    IF ~Compiled(adr) THEN Outcome("NotCompiled", "none", <<>>)
    ELSE Outcome(IF execFails THEN "ExecutionFailed" ELSE "ok", "none",
                 ClearAndExecute
                   \o CallEach("forge_buffer_get_lanes", adr.outputIds_)
                   \o CallEach("forge_buffer_get_gradient_lanes", adr.inputIds_))

\* a forwardAndBackward() that copies a non-null outputAdjoints into the
\* gradient of the first output before executing
forwardAndBackward_seeded(kind, adr, numInputs, numOutputs, outputAdjoints, execFails, garbage) ==
    IF ~Compiled(adr) THEN Outcome("NotCompiled", "none", <<>>)
    ELSE IF kind # "ForgeBackend" /\ numInputs # Len(adr.inputIds_)
    THEN Outcome("CountMismatch", "none", <<>>)
    ELSE IF kind = "ForgeBackendCAPI" /\ numOutputs # Len(adr.outputIds_)
    THEN Outcome("CountMismatch", "none", <<>>)
    ELSE IF execFails THEN Outcome("ExecutionFailed", "none", ClearAndExecute)
    ELSE Outcome("ok", "none",
                 (IF outputAdjoints = "null" THEN <<>>
                  ELSE <<NativeCall("forge_buffer_set_gradient", 0, 0)>>)
                   \o ClearAndExecute
                   \o CallEach("forge_buffer_get_lanes", adr.outputIds_)
                   \o CallEach("forge_buffer_get_gradient_lanes", adr.inputIds_))

\* forwardAndBackward(): ForgeBackendCAPI checks both counts and writes the
\* inputs; the AVX variants check inputGradients.size() (numInputs here) and
\* read outputIds_[0] only, which for an empty list is the id `garbage`;
\* outputAdjoints is the caller's seed
forwardAndBackward(kind, adr, numInputs, numOutputs, outputAdjoints, execFails, garbage) ==
    IF ~Compiled(adr) THEN Outcome("NotCompiled", "none", <<>>)
    ELSE IF kind # "ForgeBackend" /\ numInputs # Len(adr.inputIds_)
    THEN Outcome("CountMismatch", "none", <<>>)
    ELSE IF kind = "ForgeBackendCAPI" /\ numOutputs # Len(adr.outputIds_)
    THEN Outcome("CountMismatch", "none", <<>>)
    ELSE IF kind = "ForgeBackendCAPI"
    THEN IF execFails
         THEN Outcome("ExecutionFailed", "none",
                      CallEach("forge_buffer_set_value", adr.inputIds_) \o ClearAndExecute)
         ELSE Outcome("ok", "none",
                      CallEach("forge_buffer_set_value", adr.inputIds_) \o ClearAndExecute
                        \o CallEach("forge_buffer_get_value", adr.outputIds_)
                        \o CallEach("forge_buffer_get_gradient", adr.inputIds_))
    ELSE IF execFails THEN Outcome("ExecutionFailed", "none", ClearAndExecute)
    ELSE IF kind = "ForgeBackend"
    THEN Outcome("ok", "none",
                 ClearAndExecute \o CallEach("forge_buffer_get_lanes", adr.outputIds_)
                   \o CallEach("forge_buffer_get_gradient_lanes", adr.inputIds_))
    ELSE IF adr.outputIds_ = <<>>
    THEN Outcome("ok", "emptyIndex",
                 ClearAndExecute \o <<NativeCall("forge_buffer_get_lanes", garbage, 0)>>
                   \o CallEach("forge_buffer_get_gradient_lanes", adr.inputIds_))
    ELSE Outcome("ok", "none",
                 ClearAndExecute
                   \o <<NativeCall("forge_buffer_get_lanes", adr.outputIds_[1], 0)>>
                   \o CallEach("forge_buffer_get_gradient_lanes", adr.inputIds_))

\* ------------------------------------------------------------------ state
VARIABLES
    kind,        \* the adapter class the program instantiates
    ad,          \* ad[a]: members of adapter object a
    heap,        \* the native handles
    destroyLog,  \* forge_*_destroy calls of the last operation, in call order
    lastOp,      \* the last operation, its arguments and how it returned
    loadOnce,    \* std::once_flag of loadCustomBackendFromEnv has been set
    load         \* threads inside compile() around the backend load step

vars == <<kind, ad, heap, destroyLog, lastOp, loadOnce, load>>

NoGraph == JITGraph(<<>>, <<>>, <<>>, <<>>)
\* calls: the native buffer calls of a data operation (empty for the others)
Op(name, a, b, res, ub, G, skipped) ==
    [op |-> name, a |-> a, b |-> b, res |-> res, ub |-> ub, G |-> G,
     skipped |-> skipped, calls |-> <<>>, seed |-> "null"]
ArgRange == 0..MaxArg

\* threads that call compile(), each on an adapter of its own
Threads == {"t1", "t2", "t3"}
\* pc[t]: where thread t is inside compile(); active: the thread running the
\* call_once callable; attempts/finished: forge_load_backend calls begun/returned;
\* result: what the last forge_load_backend call returned; thrown[t]: how the
\* last compile() of thread t ended ("none" = returned normally, else the step
\* that threw; "notRun" before its first compile())
NoLoad == [pc |-> [t \in Threads |-> "idle"], active |-> "none",
           attempts |-> 0, finished |-> 0, result |-> "none",
           thrown |-> [t \in Threads |-> "notRun"]]

Init ==
    /\ kind \in Kinds
    /\ ad = [a \in Adapters |-> IF a = "p" THEN Fresh ELSE NoObject]
    /\ heap = [h \in HeapIds |-> FreeCell]
    /\ destroyLog = <<>>
    /\ lastOp = Op("construct", "p", "p", "ok", "none", NoGraph, FALSE)
    /\ loadOnce = FALSE
    /\ load = NoLoad

\* compile() with graph G, injected failure fail and environment customInstSet
CompileWith(a, G, fail, customInstSet) ==
    /\ ad[a].alive
    /\ FreeRows(heap) # {}
    /\ \E r \in {compile(kind, ad[a], heap, G, fail, customInstSet)} :
          /\ ad' = [ad EXCEPT ![a] = r.ad]
          /\ heap' = r.hp
          /\ destroyLog' = r.log
          /\ lastOp' = Op("compile", a, a, r.res, "none", G, r.skipped)
          /\ loadOnce' = (loadOnce \/ r.loadStep)
    /\ UNCHANGED <<kind, load>>

\* XAD_FORGE_INSTRUCTION_SET is read by ForgeBackend::compile only
EnvChoices == IF kind = "ForgeBackend" THEN BOOLEAN ELSE {FALSE}

Compile(a) ==
    \E G \in NamedGraphs, fail \in FailChoices, customInstSet \in EnvChoices :
        CompileWith(a, G, fail, customInstSet)

\* compile() as exercised by the ownership specification: the failures leave
\* zero (graph), one (config), two (kernel) or three (buffer) handles behind,
\* the two graphs differ in node count
\* (only ForgeBackendCAPI::compile looks at the node count, so only it needs the
\* second graph to replace a kernel it holds)
OwnerGraphs == IF kind = "ForgeBackendCAPI" THEN {GLin, GOne} ELSE {GLin}
OwnerFails == {f \in FailChoices : f.step \in {"none", "graph", "config", "kernel", "buffer"}}
CompileOwned(a) ==
    \E G \in OwnerGraphs, fail \in OwnerFails : CompileWith(a, G, fail, FALSE)

Reset(a) ==
    /\ ad[a].alive
    /\ \E r \in {reset(ad[a], heap)} :
          /\ ad' = [ad EXCEPT ![a] = r.ad]
          /\ heap' = r.hp
          /\ destroyLog' = r.log
    /\ lastOp' = Op("reset", a, a, "ok", "none", NoGraph, FALSE)
    /\ UNCHANGED <<kind, loadOnce, load>>

Construct(a) ==
    /\ ~ad[a].alive
    /\ ad' = [ad EXCEPT ![a] = Fresh]
    /\ destroyLog' = <<>>
    /\ lastOp' = Op("construct", a, a, "ok", "none", NoGraph, FALSE)
    /\ UNCHANGED <<kind, heap, loadOnce, load>>

MoveConstruct(dst, src) ==
    /\ ~ad[dst].alive /\ ad[src].alive
    /\ \E m \in {moveConstruct(ad[src])} :
          ad' = [ad EXCEPT ![dst] = m.dst, ![src] = m.src]
    /\ destroyLog' = <<>>
    /\ lastOp' = Op("moveConstruct", dst, src, "ok", "none", NoGraph, FALSE)
    /\ UNCHANGED <<kind, heap, loadOnce, load>>

\* operator=(T&&); with dst = src the "this != &other" test makes it a no-op
MoveAssign(dst, src) ==
    /\ ad[dst].alive /\ ad[src].alive
    /\ IF dst = src
       THEN /\ destroyLog' = <<>>
            /\ UNCHANGED <<ad, heap>>
       ELSE \E m \in {moveAssign(ad[dst], ad[src], heap)} :
               /\ ad' = [ad EXCEPT ![dst] = m.dst, ![src] = m.src]
               /\ heap' = m.hp
               /\ destroyLog' = m.log
    /\ lastOp' = Op("moveAssign", dst, src, "ok", "none", NoGraph, FALSE)
    /\ UNCHANGED <<kind, loadOnce, load>>

\* destructor
Destroy(a) ==
    /\ ad[a].alive
    /\ \E c \in {cleanup(ad[a], heap)} :
          /\ ad' = [ad EXCEPT ![a] = NoObject]
          /\ heap' = c.hp
          /\ destroyLog' = c.log
    /\ lastOp' = Op("destroy", a, a, "ok", "none", NoGraph, FALSE)
    /\ UNCHANGED <<kind, loadOnce, load>>

DataOp(name, a, o) ==
    /\ lastOp' = [Op(name, a, a, o.res, o.ub, NoGraph, FALSE) EXCEPT !.calls = o.calls]
    /\ destroyLog' = <<>>
    /\ UNCHANGED <<kind, ad, heap, loadOnce, load>>

SetInput(a) ==
    /\ ad[a].alive /\ kind # "ForgeBackendCAPI"
    /\ \E i \in ArgRange : DataOp("setInput", a, setInput(ad[a], i))

GetOutputLanes(a) ==
    /\ ad[a].alive /\ kind \in {"ForgeBackendAVX", "ForgeBackendAVX_CAPI"}
    /\ \E i \in ArgRange : DataOp("getOutputLanes", a, getOutputLanes(ad[a], i))

Forward(a) ==
    /\ ad[a].alive /\ kind \in {"ForgeBackend", "ForgeBackendCAPI"}
    /\ \E ni \in ArgRange, no \in ArgRange, execFails \in BOOLEAN :
          DataOp("forward", a, forward(kind, ad[a], ni, no, execFails))

\* the caller's outputAdjoints: a null pointer, all ones, or other values;
\* ForgeBackend::forwardAndBackward has no such parameter
Adjoints == {"null", "ones", "other"}
SeedChoices == IF kind = "ForgeBackend" THEN {"null"} ELSE Adjoints
\* what a read of outputIds_[0] yields when the list is empty
GarbageIds(adr) == IF adr.outputIds_ = <<>> THEN ArgRange ELSE {0}

ForwardAndBackward(a) ==
    /\ ad[a].alive
    /\ \E ni \in ArgRange, no \in ArgRange, oa \in SeedChoices, execFails \in BOOLEAN,
          garbage \in GarbageIds(ad[a]) :
          \E o \in {forwardAndBackward(kind, ad[a], ni, no, oa, execFails, garbage)} :
             /\ lastOp' = [Op("forwardAndBackward", a, a, o.res, o.ub, NoGraph, FALSE)
                              EXCEPT !.calls = o.calls, !.seed = oa]
             /\ destroyLog' = <<>>
             /\ UNCHANGED <<kind, ad, heap, loadOnce, load>>

\* one adapter object p: translation, failures and data operations
Next ==
    \/ Compile("p")
    \/ Reset("p")
    \/ SetInput("p")
    \/ GetOutputLanes("p")
    \/ Forward("p")
    \/ ForwardAndBackward("p")

Spec == Init /\ [][Next]_vars

\* two adapter objects: construction, moves, destruction and handle ownership
OwnerNext ==
    \/ \E a \in Adapters : CompileOwned(a)
    \/ \E a \in Adapters : Reset(a)
    \/ \E a \in Adapters : Construct(a)
    \/ \E a \in Adapters, b \in Adapters : MoveConstruct(a, b)
    \/ \E a \in Adapters, b \in Adapters : MoveAssign(a, b)
    \/ \E a \in Adapters : Destroy(a)

OwnerSpec == Init /\ [][OwnerNext]_vars

\* ================================================================= claims
DataOps == {"setInput", "getOutputLanes", "forward", "forwardAndBackward"}
AllHeld == UNION {Held(ad[a]) : a \in Adapters}
EmptyHeap == [h \in HeapIds |-> FreeCell]
\* the Forge graph held by adapter record adr
TargetGraphOf(adr) == heap[adr.graph_].tg

\* C1: a data operation invoked on an adapter that is not COMPILED fails with an
\* error and makes no native call on a null buffer or kernel handle.
C1_DataOpsRequireCompiled ==
    (lastOp.op \in DataOps /\ ~Compiled(ad[lastOp.a]))
        => (lastOp.res # "ok" /\ lastOp.ub = "none")

\* C2: when compile() fails the adapter is not COMPILED on return; forward and
\* forwardAndBackward on an adapter that is not COMPILED fail with the
\* not-compiled error; and the adapter becomes COMPILED again only through a
\* compile() that returns normally.
C2_FailedCompileLeavesUncompiled ==
    /\ [](/\ (lastOp.op = "compile" /\ lastOp.res # "ok") => ~Compiled(ad[lastOp.a])
          /\ (lastOp.op \in {"forward", "forwardAndBackward"} /\ ~Compiled(ad[lastOp.a]))
                => lastOp.res = "NotCompiled")
    /\ [][\A a \in Adapters :
            (~Compiled(ad[a]) /\ Compiled(ad'[a]))
                => (lastOp'.op = "compile" /\ lastOp'.a = a /\ lastOp'.res = "ok")]_vars

\* a compile() that failed at buffer creation on an adapter that was COMPILED
\* before (its cleanup() destroyed four handles): the kernel is held, not the buffer
C2_Witness ==
    /\ lastOp.op = "compile" /\ lastOp.res = "buffer"
    /\ Len(destroyLog) = 4
    /\ ad[lastOp.a].kernel_ # NullH /\ ~Compiled(ad[lastOp.a])

\* C3: a compile() of a valid graph whose native calls all succeed, called right
\* after a compile() that failed, leaves the adapter COMPILED with the kernel,
\* buffer and id lists of that graph.
C3_RetryAfterFailedCompile ==
    [][(/\ lastOp.op = "compile" /\ lastOp.res # "ok"
        /\ lastOp'.op = "compile" /\ lastOp'.a = lastOp.a /\ lastOp'.res = "ok"
        /\ ValidGraph(lastOp'.G))
       => LET adr == ad'[lastOp.a]
              t == Translate(kind, lastOp'.G, NoFail, <<>>, <<>>)
          IN /\ Compiled(adr)
             /\ adr.inputIds_ = t.inputIds
             /\ adr.outputIds_ = t.outputIds]_vars

\* C4: every handle an adapter holds is alive, of the member's type and held by
\* no other member or adapter; every alive handle is held by an alive adapter
\* (none is leaked by overwriting a member, all are destroyed once every adapter
\* is); no destroy call hits a handle that is not alive; a moved-from adapter
\* and a destroyed one hold nothing.
C4_SoleOwnership ==
    /\ \A a \in Adapters :
         /\ Held(ad[a]) \subseteq Live(heap)
         /\ ad[a].graph_ # NullH => heap[ad[a].graph_].type = "graph"
         /\ ad[a].config_ # NullH => heap[ad[a].config_].type = "config"
         /\ ad[a].kernel_ # NullH => heap[ad[a].kernel_].type = "kernel"
         /\ ad[a].buffer_ # NullH => heap[ad[a].buffer_].type = "buffer"
         /\ ~ad[a].alive => Held(ad[a]) = {}
    /\ \A a \in Adapters, b \in Adapters : a # b => Held(ad[a]) \cap Held(ad[b]) = {}
    /\ Live(heap) \subseteq AllHeld
    /\ \A i \in 1..Len(destroyLog) : destroyLog[i].wasLive
    /\ (lastOp.op \in {"moveConstruct", "moveAssign"} /\ lastOp.a # lastOp.b)
          => Held(ad[lastOp.b]) = {}

\* a COMPILED adapter was move-assigned onto a COMPILED adapter: the target's
\* four handles were destroyed, it now holds the source's four
C4_Witness ==
    /\ lastOp.op = "moveAssign" /\ lastOp.a # lastOp.b
    /\ Len(destroyLog) = 4
    /\ Compiled(ad[lastOp.a])
    /\ Held(ad[lastOp.b]) = {}

\* C5: the destroy calls of one operation come in the order buffer, kernel,
\* config, graph, no handle is destroyed while a handle created from it is
\* alive, and every handle that an operation takes out of the adapters' members
\* is destroyed by it.
ReleaseRank(type) == CHOOSE i \in 1..4 : <<"buffer", "kernel", "config", "graph">>[i] = type
C5_ReleaseOrder ==
    /\ [](/\ \A i \in 1..Len(destroyLog), j \in 1..Len(destroyLog) :
               i < j => ReleaseRank(destroyLog[i].type) < ReleaseRank(destroyLog[j].type)
          /\ \A i \in 1..Len(destroyLog) : destroyLog[i].deps = {})
    /\ [][(AllHeld \ AllHeld')
            \subseteq {destroyLog'[i].h : i \in 1..Len(destroyLog')}]_vars

\* a compile() that replaced a full set of handles
C5_Witness ==
    /\ lastOp.op = "compile" /\ ~lastOp.skipped
    /\ Len(destroyLog) = 4
    /\ destroyLog[1].type = "buffer" /\ destroyLog[4].type = "graph"

\* C6: after reset() the adapter holds no handle, both id lists are empty and
\* lastNodeCount_ is 0; a compile() that follows the reset and returns normally
\* was not skipped and leaves exactly the members, kernel and Forge graph that
\* the same compile() leaves in a freshly constructed adapter.
C6_ResetThenCompileAsFresh ==
    /\ [](lastOp.op = "reset"
            => /\ Held(ad[lastOp.a]) = {}
               /\ ad[lastOp.a].inputIds_ = <<>> /\ ad[lastOp.a].outputIds_ = <<>>
               /\ ad[lastOp.a].lastNodeCount_ = 0)
    /\ [][(/\ lastOp.op = "reset"
           /\ lastOp'.op = "compile" /\ lastOp'.a = lastOp.a /\ lastOp'.res = "ok")
          => /\ ~lastOp'.skipped
             /\ \E customInstSet \in BOOLEAN :
                  LET r == compile(kind, Fresh, EmptyHeap, lastOp'.G, NoFail, customInstSet)
                  IN ad'[lastOp.a] = r.ad /\ heap' = r.hp]_vars

\* reset() of a COMPILED ForgeBackendCAPI adapter: four handles destroyed, the
\* remembered node count is back to 0
C6_Witness ==
    /\ kind = "ForgeBackendCAPI"
    /\ lastOp.op = "reset" /\ Len(destroyLog) = 4
    /\ ad[lastOp.a].lastNodeCount_ = 0 /\ ad[lastOp.a].outputIds_ = <<>>

C8_ConstantsPreRegistered ==
    (lastOp.op = "compile" /\ lastOp.res = "ok" /\ ~lastOp.skipped)
        => LET tg == TargetGraphOf(ad[lastOp.a])
               pool == lastOp.G.const_pool
           IN /\ tg.constPool = pool
              /\ \A i \in 1..Len(pool) :
                    tg.nodes[i].op = "CONSTANT" /\ tg.nodes[i].imm = i - 1
              /\ \A i \in 1..Len(tg.nodes) : tg.nodes[i].op = "CONSTANT" => i <= Len(pool)

\* C9: compile() of a graph that is not in strict topological order fails, holds
\* no kernel afterwards and leaves the adapter not COMPILED.
C9_RejectsForwardOperand ==
    (lastOp.op = "compile" /\ ~TopologicalOrder(lastOp.G))
        => /\ lastOp.res # "ok"
           /\ ad[lastOp.a].kernel_ = NullH
           /\ ~Compiled(ad[lastOp.a])

\* C10: compile() of a graph with a CONSTANT node whose pool index is out of
\* range fails during translation (no config, kernel or buffer step is reached),
\* holds neither kernel nor buffer afterwards and is not COMPILED.
C10_RejectsBadConstIndex ==
    (lastOp.op = "compile" /\ ~ConstIndicesInRange(lastOp.G))
        => /\ lastOp.res \notin {"ok", "config", "instructionSet", "kernel", "buffer"}
           /\ ad[lastOp.a].kernel_ = NullH /\ ad[lastOp.a].buffer_ = NullH
           /\ ~Compiled(ad[lastOp.a])

\* the node-id map compile() builds for G: entry i + 1 is the target id of
\* source node i
NodeIdMapOf(G) == Translate(kind, G, NoFail, <<>>, <<>>).nodeIdMap
\* source node indices (0-based) of G that are neither INPUT nor CONSTANT
OpNodes(G) == {i \in 0..(nodeCount(G) - 1) :
                 G.nodes[i + 1].op \notin {"INPUT", "CONSTANT"}}

\* C11: after a compile() that translated a source graph in strict topological
\* order, every source node i that is neither INPUT nor CONSTANT has a target
\* node nodeIdMap[i] with the same opcode, immediate and IsActive flag, created
\* with needsGradient false, whose operands are nodeIdMap[a], nodeIdMap[b],
\* nodeIdMap[c] in that order; target ids increase with the source index.
C11_OpNodesTranslated ==
    (lastOp.op = "compile" /\ lastOp.res = "ok" /\ ~lastOp.skipped
        /\ TopologicalOrder(lastOp.G))
    => LET G == lastOp.G
           tg == TargetGraphOf(ad[lastOp.a])
           map == NodeIdMapOf(G)
       IN /\ \A i \in OpNodes(G) :
               /\ map[i + 1] < Len(tg.nodes)
               /\ \E n \in {G.nodes[i + 1]}, t \in {tg.nodes[map[i + 1] + 1]} :
                     /\ t.op = n.op /\ t.imm = n.imm /\ t.active = n.active
                     /\ ~t.createdWith
                     /\ t.a = map[n.a + 1] /\ t.b = map[n.b + 1] /\ t.c = map[n.c + 1]
          /\ \A i \in OpNodes(G), j \in OpNodes(G) : i < j => map[i + 1] < map[j + 1]

\* GChain compiled by a remapping variant: two operation nodes in source order,
\* the ADD node's operands 0 and 2 became the target ids 1 (the input, after the
\* pre-registered constant) and 2 (the MUL node)
C11_Witness ==
    /\ lastOp.op = "compile" /\ lastOp.res = "ok" /\ ~lastOp.skipped
    /\ lastOp.G = GChain
    /\ Len(TargetGraphOf(ad[lastOp.a]).nodes) = 4
    /\ TargetGraphOf(ad[lastOp.a]).nodes[3].op = "MUL"
    /\ TargetGraphOf(ad[lastOp.a]).nodes[4].op = "ADD"
    /\ TargetGraphOf(ad[lastOp.a]).nodes[4].a = 1
    /\ TargetGraphOf(ad[lastOp.a]).nodes[4].b = 2

\* source indices (0-based) of the INPUT nodes of G and the k-th of them
\* (k = 1, 2, ...) in increasing index order
InputNodes(G) == {i \in 0..(nodeCount(G) - 1) : G.nodes[i + 1].op = "INPUT"}
KthInputNode(G, k) ==
    CHOOSE i \in InputNodes(G) : Cardinality({j \in InputNodes(G) : j < i}) = k - 1
\* the last operation was a compile() that returned normally, in a variant that
\* has numInputs() and setInput()/setInputLanes()
CompiledWithSetInput ==
    lastOp.op = "compile" /\ lastOp.res = "ok" /\ kind # "ForgeBackendCAPI"

\* C12: after a successful compile(), numInputs() is the number of INPUT nodes
\* of the source graph and entry k of the input-id list is the target id created
\* for the k-th INPUT node (in source index order), an input node of the target
\* graph; a setInput(k, values) that follows writes that node and nothing else.
C12_InputOrder ==
    /\ [](CompiledWithSetInput
            => \E adr \in {ad[lastOp.a]}, G \in {lastOp.G} :
                 /\ Len(adr.inputIds_) = Cardinality(InputNodes(G))
                 /\ \A k \in 1..Len(adr.inputIds_) :
                      /\ adr.inputIds_[k] = NodeIdMapOf(G)[KthInputNode(G, k) + 1]
                      /\ TargetGraphOf(adr).nodes[adr.inputIds_[k] + 1].op = "INPUT"
                 /\ \A k \in ArgRange :
                      k < Cardinality(InputNodes(G))
                        => setInput(adr, k).res = "ok" /\ setInput(adr, k).ub = "none")
    /\ [][(CompiledWithSetInput /\ lastOp'.op = "setInput" /\ lastOp'.res = "ok")
            => /\ Len(lastOp'.calls) = 1
               /\ lastOp'.calls[1].fn = "forge_buffer_set_lanes"
               /\ lastOp'.calls[1].slot < Cardinality(InputNodes(lastOp.G))
               /\ lastOp'.calls[1].id =
                     NodeIdMapOf(lastOp.G)[KthInputNode(lastOp.G, lastOp'.calls[1].slot + 1) + 1]
               /\ ad' = ad /\ heap' = heap]_vars

\* setInput(1, values) on an adapter compiled for a graph with two INPUT nodes
C12_Witness ==
    /\ lastOp.op = "setInput" /\ lastOp.res = "ok" /\ lastOp.ub = "none"
    /\ Compiled(ad[lastOp.a])
    /\ Len(ad[lastOp.a].inputIds_) = 2
    /\ lastOp.calls = <<NativeCall("forge_buffer_set_lanes", ad[lastOp.a].inputIds_[2], 1)>>

\* the ids of the native calls named fn in a call log, in call order
RECURSIVE IdsOf(_, _)
IdsOf(calls, fns) ==
    IF calls = <<>> THEN <<>>
    ELSE IF Head(calls).fn \in fns THEN <<Head(calls).id>> \o IdsOf(Tail(calls), fns)
    ELSE IdsOf(Tail(calls), fns)
OutputReads == {"forge_buffer_get_lanes", "forge_buffer_get_value"}

\* the output-id list of adapter record adr is the one of source graph G: one
\* entry per source output, entry k the target id of source node output_ids[k],
\* a node of the target graph, marked as output in that order, and read in that
\* order by forward() (scalar variants) or by getOutputLanes(k) (AVX variants)
OutputsFollow(adr, G) ==
    /\ Len(adr.outputIds_) = Len(G.output_ids)
    /\ \A k \in 1..Len(adr.outputIds_) :
          /\ G.output_ids[k] < Len(NodeIdMapOf(G))
          /\ adr.outputIds_[k] = NodeIdMapOf(G)[G.output_ids[k] + 1]
          /\ adr.outputIds_[k] < Len(TargetGraphOf(adr).nodes)
    /\ TargetGraphOf(adr).outputs = adr.outputIds_
    /\ kind \in {"ForgeBackend", "ForgeBackendCAPI"}
          => IdsOf(forward(kind, adr, Len(adr.inputIds_), Len(adr.outputIds_), FALSE).calls,
                   OutputReads) = adr.outputIds_
    /\ kind \in {"ForgeBackendAVX", "ForgeBackendAVX_CAPI"}
          => \A k \in 1..Len(adr.outputIds_) :
                k - 1 \in ArgRange
                  => IdsOf(getOutputLanes(adr, k - 1).calls, OutputReads)
                        = <<adr.outputIds_[k]>>

\* C13: in every variant, after a compile() of a valid graph that returned
\* normally the output-id list has one entry per source output, entry k is the
\* target id of source node output_ids[k] and a valid id of the target graph,
\* and the outputs are marked and read back in source order.
C13_OutputOrder ==
    (lastOp.op = "compile" /\ lastOp.res = "ok" /\ ValidGraph(lastOp.G))
        => OutputsFollow(ad[lastOp.a], lastOp.G)

\* the needsGradient rule at target node id n (0-based) of the graph tg
NeedsGradientRule(tg, n) ==
    LET ops == OperandIds(tg.nodes[n + 1])
    IN tg.nodes[n + 1].needsGradient
         <=> \/ n \in Range(tg.diffInputs)
             \/ \E k \in 1..Len(ops) :
                   ops[k] < Len(tg.nodes) /\ tg.nodes[ops[k] + 1].needsGradient

\* C14: after a compile() that translated a valid graph and returned normally,
\* every node of the Forge graph has needsGradient true exactly when it is a
\* marked diff input or one of its operands has needsGradient true, and one
\* more increasing-id sweep changes no flag.
C14_NeedsGradientFixpoint ==
    (lastOp.op = "compile" /\ lastOp.res = "ok" /\ ~lastOp.skipped
       /\ ValidGraph(lastOp.G))
        => LET tg == TargetGraphOf(ad[lastOp.a])
           IN /\ \A n \in 0..(Len(tg.nodes) - 1) : NeedsGradientRule(tg, n)
              /\ forge_graph_propagate_gradients(tg).nodes = tg.nodes

\* ------------------------------------------------ kernel execution (external)
\* What forge_execute computes in one lane, as far as the adapters rely on it.
\* x[k + 1] is the caller's value for input slot k in that lane, g the value an
\* unwritten input node or a constant outside the Forge pool evaluates to.
VECTOR_WIDTH(k) == IF k \in {"ForgeBackendAVX", "ForgeBackendAVX_CAPI"} THEN 4 ELSE 1
InputWrites == {"forge_buffer_set_lanes", "forge_buffer_set_value"}
GradientReads == {"forge_buffer_get_gradient_lanes", "forge_buffer_get_gradient"}

\* the value the buffer holds for input node n after the writes in calls
Stored(calls, x, g, n) ==
    LET W == {i \in 1..Len(calls) : calls[i].fn \in InputWrites /\ calls[i].id = n}
    IN IF W = {} THEN g
       ELSE x[calls[CHOOSE i \in W : \A i2 \in W : i2 <= i].slot + 1]

\* forward value of target node n; a CONSTANT node's imm is its pool index
RECURSIVE NodeValue(_, _, _, _, _)
NodeValue(tg, calls, x, g, n) ==
    IF n >= Len(tg.nodes) THEN g
    ELSE IF tg.nodes[n + 1].op = "INPUT" THEN Stored(calls, x, g, n)
    ELSE IF tg.nodes[n + 1].op = "CONSTANT"
    THEN IF tg.nodes[n + 1].imm < Len(tg.constPool)
         THEN tg.constPool[tg.nodes[n + 1].imm + 1] ELSE g
    ELSE IF tg.nodes[n + 1].a >= n \/ tg.nodes[n + 1].b >= n THEN g
    ELSE IF tg.nodes[n + 1].op = "ADD"
    THEN NodeValue(tg, calls, x, g, tg.nodes[n + 1].a)
           + NodeValue(tg, calls, x, g, tg.nodes[n + 1].b)
    ELSE NodeValue(tg, calls, x, g, tg.nodes[n + 1].a)
           * NodeValue(tg, calls, x, g, tg.nodes[n + 1].b)

\* derivative of target node n with respect to node wrt
RECURSIVE NodeDeriv(_, _, _, _, _, _)
NodeDeriv(tg, calls, x, g, n, wrt) ==
    IF n = wrt THEN 1
    ELSE IF n >= Len(tg.nodes) THEN 0
    ELSE IF tg.nodes[n + 1].op \in {"INPUT", "CONSTANT"} THEN 0
    ELSE IF tg.nodes[n + 1].a >= n \/ tg.nodes[n + 1].b >= n THEN 0
    ELSE IF tg.nodes[n + 1].op = "ADD"
    THEN NodeDeriv(tg, calls, x, g, tg.nodes[n + 1].a, wrt)
           + NodeDeriv(tg, calls, x, g, tg.nodes[n + 1].b, wrt)
    ELSE NodeDeriv(tg, calls, x, g, tg.nodes[n + 1].a, wrt)
             * NodeValue(tg, calls, x, g, tg.nodes[n + 1].b)
           + NodeValue(tg, calls, x, g, tg.nodes[n + 1].a)
             * NodeDeriv(tg, calls, x, g, tg.nodes[n + 1].b, wrt)

\* gradient accumulated at node wrt: every marked output is seeded with 1
RECURSIVE Gradient(_, _, _, _, _, _)
Gradient(tg, calls, x, g, wrt, k) ==
    IF k > Len(tg.outputs) THEN 0
    ELSE NodeDeriv(tg, calls, x, g, tg.outputs[k], wrt)
           + Gradient(tg, calls, x, g, wrt, k + 1)

\* what the reads in calls hand back to the caller: <<array, slot, value>>
Returned(tg, calls, x, g) ==
    {<<"outputs", calls[i].slot, NodeValue(tg, calls, x, g, calls[i].id)>> :
        i \in {i2 \in 1..Len(calls) : calls[i2].fn \in OutputReads}}
    \cup
    {<<"inputGradients", calls[i].slot, Gradient(tg, calls, x, g, calls[i].id, 1)>> :
        i \in {i2 \in 1..Len(calls) : calls[i2].fn \in GradientReads}}

\* input values tried in each lane, and the values an undefined read can give
LaneValues == {1, 2}
GarbageValues == {0, 5}
\* one lane group per input: xs[k + 1][j] is lane j - 1 of input k
LaneInputs(k, n) == [1..n -> [1..VECTOR_WIDTH(k) -> LaneValues]]
LaneOf(xs, j) == [k \in 1..Len(xs) |-> xs[k][j]]

\* setInput(k, ...) for every input from k on, as native calls
RECURSIVE SetInputs(_, _)
SetInputs(adr, k) ==
    IF k >= Len(adr.inputIds_) THEN <<>>
    ELSE setInput(adr, k).calls \o SetInputs(adr, k + 1)

\* the native calls of "set every input, then forwardAndBackward" on a compiled
\* adapter of class k (ForgeBackendCAPI passes the inputs to forwardAndBackward)
RunCalls(k, adr) ==
    (IF k = "ForgeBackendCAPI" THEN <<>> ELSE SetInputs(adr, 0))
      \o forwardAndBackward(k, adr, Len(adr.inputIds_), Len(adr.outputIds_),
                            "null", FALSE, 0).calls

\* the adapter adr after a compile() of G by class k, and the graph it built
CompiledAs(k, G, adr) ==
    [adr EXCEPT !.inputIds_ = Translate(k, G, NoFail, <<>>, <<>>).inputIds,
                !.outputIds_ = Translate(k, G, NoFail, <<>>, <<>>).outputIds]
GraphBuiltBy(k, G) == Translate(k, G, NoFail, <<>>, <<>>).tg

\* what an adapter of class k compiled from G returns at the lane values x
ResultsOf(k, G, adr, x, g) ==
    Returned(GraphBuiltBy(k, G), RunCalls(k, CompiledAs(k, G, adr)), x, g)

\* C15: a W=4 adapter that compiled a valid graph G, had every input's lane
\* group set and ran forwardAndBackward returns, in every lane j, the output
\* and the gradient of every input that a W=1 adapter compiled from G returns
\* at the lane-j input values.
C15_LaneEquivalence ==
    (lastOp.op = "compile" /\ lastOp.res = "ok" /\ ~lastOp.skipped
       /\ ValidGraph(lastOp.G) /\ VECTOR_WIDTH(kind) = 4)
        => \A w1 \in {k \in Kinds : VECTOR_WIDTH(k) = 1} :
             \A xs \in LaneInputs(kind, Len(lastOp.G.input_ids)) :
               \A j \in 1..VECTOR_WIDTH(kind), g \in GarbageValues :
                 /\ Returned(TargetGraphOf(ad[lastOp.a]),
                             RunCalls(kind, ad[lastOp.a]), LaneOf(xs, j), g)
                      \subseteq ResultsOf(w1, lastOp.G, ad[lastOp.a], LaneOf(xs, j), g)
                 /\ \A k \in 1..Len(xs) :
                      \E r \in Returned(TargetGraphOf(ad[lastOp.a]),
                                         RunCalls(kind, ad[lastOp.a]), LaneOf(xs, j), g) :
                          r[1] = "inputGradients" /\ r[2] = k - 1

\* the adapter class of the same lane width with the other binding style
OtherBinding(k) ==
    CHOOSE k2 \in Kinds : k2 # k /\ VECTOR_WIDTH(k2) = VECTOR_WIDTH(k)

\* the parts of a Forge graph the translator determines
SameTargetGraph(t1, t2) ==
    /\ t1.constPool = t2.constPool
    /\ t1.nodes = t2.nodes
    /\ t1.outputs = t2.outputs
    /\ t1.diffInputs = t2.diffInputs

\* C16: after a compile() that translated a valid graph G, the adapter holds
\* the Forge graph and the input-id and output-id lists that the class of the
\* same lane width with the other binding style builds from G, and both return
\* the same outputs and gradients for all inputs.
C16_BindingStylesAgree ==
    (lastOp.op = "compile" /\ lastOp.res = "ok" /\ ~lastOp.skipped
       /\ ValidGraph(lastOp.G))
        => /\ SameTargetGraph(TargetGraphOf(ad[lastOp.a]),
                              GraphBuiltBy(OtherBinding(kind), lastOp.G))
           /\ ad[lastOp.a].inputIds_
                = CompiledAs(OtherBinding(kind), lastOp.G, ad[lastOp.a]).inputIds_
           /\ ad[lastOp.a].outputIds_
                = CompiledAs(OtherBinding(kind), lastOp.G, ad[lastOp.a]).outputIds_
           /\ \A xs \in LaneInputs(kind, Len(lastOp.G.input_ids)) :
                \A j \in 1..VECTOR_WIDTH(kind), g \in GarbageValues :
                   Returned(TargetGraphOf(ad[lastOp.a]),
                            RunCalls(kind, ad[lastOp.a]), LaneOf(xs, j), g)
                     = ResultsOf(OtherBinding(kind), lastOp.G, ad[lastOp.a],
                                 LaneOf(xs, j), g)

\* C17: in every variant a forwardAndBackward() that returned normally has read
\* the value of every entry of the output-id list into the caller's outputs, in
\* list order, and the gradient of every entry of the input-id list, in list
\* order, and has read no element outside the output-id list; this includes
\* adapters compiled with no output or with several.
C17_AllOutputsAllGradients ==
    (lastOp.op = "forwardAndBackward" /\ lastOp.res = "ok")
        => /\ lastOp.ub = "none"
           /\ IdsOf(lastOp.calls, OutputReads) = ad[lastOp.a].outputIds_
           /\ IdsOf(lastOp.calls, GradientReads) = ad[lastOp.a].inputIds_
           /\ \A i \in 1..Len(lastOp.calls) :
                 /\ lastOp.calls[i].fn \in OutputReads
                       => /\ lastOp.calls[i].slot < Len(ad[lastOp.a].outputIds_)
                          /\ lastOp.calls[i].id
                               = ad[lastOp.a].outputIds_[lastOp.calls[i].slot + 1]
                 /\ lastOp.calls[i].fn \in GradientReads
                       => /\ lastOp.calls[i].slot < Len(ad[lastOp.a].inputIds_)
                          /\ lastOp.calls[i].id
                               = ad[lastOp.a].inputIds_[lastOp.calls[i].slot + 1]

\* C18: a forwardAndBackward() step leaves the adapter and the native handles
\* as they were, and what it returns (result, native calls made, hence outputs
\* and input gradients) is what the call returns from that state for every
\* outputAdjoints, a null pointer included, with the other arguments the same.
C18_SeedIgnored ==
    [][lastOp'.op = "forwardAndBackward"
         => /\ ad' = ad /\ heap' = heap
            /\ \E ni \in ArgRange, no \in ArgRange, execFails \in BOOLEAN,
                  garbage \in GarbageIds(ad[lastOp'.a]) :
                  \A oa \in Adjoints :
                     forwardAndBackward(kind, ad[lastOp'.a], ni, no, oa, execFails, garbage)
                       = Outcome(lastOp'.res, lastOp'.ub, lastOp'.calls)]_vars

\* a run with a non-null seed returned outputs and gradients
C18_Witness ==
    /\ lastOp.op = "forwardAndBackward" /\ lastOp.res = "ok"
    /\ lastOp.seed = "other"
    /\ IdsOf(lastOp.calls, OutputReads) # <<>>
    /\ IdsOf(lastOp.calls, GradientReads) # <<>>

\* ------------------------------------- concurrent compile(): backend load
\* std::call_once(flag, f) with a flag a completed call has set (done) and a
\* call in progress by thread `active`: the caller runs f only when no call has
\* completed and none is in progress; it returns without running f once a call
\* has completed; otherwise it blocks.
call_once_enters_unsynchronized(done, active) == ~done

call_once_enters(done, active) == ~done /\ active = "none"
call_once_returns(done) == done

At(t, where) == load.pc[t] = where
Goto(t, where) == [load EXCEPT !.pc[t] = where]
LoadFrame == UNCHANGED <<kind, ad, heap, destroyLog, lastOp>>

\* compile() up to gradient propagation; a throw there ends the call.  Only
\* ForgeBackend::compile calls detail::loadCustomBackendFromEnv()
TranslateStep(t) ==
    /\ At(t, "idle")
    /\ \E thrown \in BOOLEAN :
          load' = IF thrown THEN [load EXCEPT !.thrown[t] = "translate"]
                  ELSE Goto(t, IF kind = "ForgeBackend" THEN "call_once" ELSE "config")
    /\ UNCHANGED loadOnce /\ LoadFrame

\* call_once: this thread becomes the one that runs the callable
EnterOnce(t) ==
    /\ At(t, "call_once") /\ call_once_enters(loadOnce, load.active)
    /\ load' = [Goto(t, "getenv") EXCEPT !.active = t]
    /\ UNCHANGED loadOnce /\ LoadFrame

\* call_once: a call has completed, return at once
SkipOnce(t) ==
    /\ At(t, "call_once") /\ call_once_returns(loadOnce)
    /\ load' = Goto(t, "config")
    /\ UNCHANGED loadOnce /\ LoadFrame

\* the callable: getenv("XAD_FORGE_BACKEND_PATH"); a non-empty path starts
\* forge_load_backend(backendPath)
Getenv(t) ==
    /\ At(t, "getenv")
    /\ \E pathSet \in BOOLEAN :
          load' = IF pathSet
                  THEN [Goto(t, "forge_load_backend") EXCEPT !.attempts = @ + 1]
                  ELSE Goto(t, "return")
    /\ UNCHANGED loadOnce /\ LoadFrame

\* a callable that leaves by an exception when the load fails
AfterLoad_throws(err) == IF err = "FORGE_SUCCESS" THEN "return" ELSE "idle"

\* where the callable continues after forge_load_backend returned err: a
\* failure is reported on stderr, nothing is thrown
AfterLoad(err) == "return"

LoadReturns(t) ==
    /\ At(t, "forge_load_backend")
    /\ \E err \in {"FORGE_SUCCESS", "failed"} :
          load' = [Goto(t, AfterLoad(err)) EXCEPT !.finished = @ + 1, !.result = err]
    /\ UNCHANGED loadOnce /\ LoadFrame

\* the callable returns: the flag is set and waiting callers are released
LeaveOnce(t) ==
    /\ At(t, "return")
    /\ loadOnce' = TRUE
    /\ load' = [Goto(t, "config") EXCEPT !.active = "none"]
    /\ LoadFrame

\* forge_config_create_*(); a null config throws
ConfigStep(t) ==
    /\ At(t, "config")
    /\ \E thrown \in BOOLEAN :
          load' = IF thrown THEN [Goto(t, "idle") EXCEPT !.thrown[t] = "config"]
                  ELSE Goto(t, "instructionSet")
    /\ UNCHANGED loadOnce /\ LoadFrame

\* where the rest of compile() can throw; only ForgeBackend selects an
\* instruction set by name, which fails when no loaded backend provides it
LaterSteps ==
    IF kind = "ForgeBackend" THEN {"none", "instructionSet", "kernel", "buffer"}
    ELSE {"none", "kernel", "buffer"}

\* instruction-set selection and the rest of compile()
FinishCompile(t) ==
    /\ At(t, "instructionSet")
    /\ \E thrown \in LaterSteps :
          load' = [Goto(t, "idle") EXCEPT !.thrown[t] = thrown]
    /\ UNCHANGED loadOnce /\ LoadFrame

LoadNext ==
    \E t \in Threads :
       \/ TranslateStep(t)
       \/ EnterOnce(t)
       \/ SkipOnce(t)
       \/ Getenv(t)
       \/ LoadReturns(t)
       \/ LeaveOnce(t)
       \/ ConfigStep(t)
       \/ FinishCompile(t)

LoadSpec == Init /\ [][LoadNext]_vars

\* C19: with any number of threads calling compile() on their own adapters,
\* forge_load_backend is begun at most once; a thread that is past the load
\* step (at config creation or instruction-set selection) of
\* ForgeBackend::compile finds the once-flag set, no thread inside the callable
\* and every begun load returned; and once the flag is set no load is begun
\* again, whatever the load returned.
C19_LoadAtMostOnce ==
    /\ [](/\ load.attempts <= 1
          /\ \A t \in Threads :
                (kind = "ForgeBackend" /\ load.pc[t] \in {"config", "instructionSet"})
                   => /\ loadOnce
                      /\ load.finished = load.attempts
                      /\ \A t2 \in Threads :
                            load.pc[t2] \notin {"getenv", "forge_load_backend", "return"})
    /\ [][loadOnce => (loadOnce' /\ load'.attempts = load.attempts)]_vars

\* the load failed, one thread is selecting its instruction set after it and
\* two more threads are at call_once
C19_Witness ==
    /\ load.attempts = 1 /\ load.result = "failed" /\ loadOnce
    /\ \E t \in Threads :
          /\ load.pc[t] = "instructionSet"
          /\ \A t2 \in Threads \ {t} : load.pc[t2] = "call_once"

\* results of a data operation that refused its arguments
Rejections == {"IndexOutOfRange", "CountMismatch"}
Rejected(res) == Outcome(res, "none", <<>>)

\* every bad argument the class of adr accepts in its signature is refused
\* before any native call
RejectsBadArguments(adr) ==
    /\ kind # "ForgeBackendCAPI"
          => \A i \in ArgRange :
                i >= Len(adr.inputIds_) => setInput(adr, i) = Rejected("IndexOutOfRange")
    /\ VECTOR_WIDTH(kind) = 4
          => /\ \A i \in ArgRange :
                   i >= Len(adr.outputIds_)
                      => getOutputLanes(adr, i) = Rejected("IndexOutOfRange")
             /\ \A ni \in ArgRange, no \in ArgRange, oa \in Adjoints,
                   execFails \in BOOLEAN, garbage \in ArgRange :
                   ni # Len(adr.inputIds_)
                      => forwardAndBackward(kind, adr, ni, no, oa, execFails, garbage)
                           = Rejected("CountMismatch")
    /\ kind = "ForgeBackendCAPI"
          => \A ni \in ArgRange, no \in ArgRange, oa \in Adjoints, execFails \in BOOLEAN :
                (ni # Len(adr.inputIds_) \/ no # Len(adr.outputIds_))
                   => /\ forward(kind, adr, ni, no, execFails) = Rejected("CountMismatch")
                      /\ forwardAndBackward(kind, adr, ni, no, oa, execFails, 0)
                           = Rejected("CountMismatch")

\* C20: on a COMPILED adapter every data operation with a bad argument (index
\* not below the declared count, or a count that differs from the compiled one)
\* is refused before any native call: no input is written, gradients are not
\* cleared, the kernel is not executed; and a refused data operation leaves the
\* adapter members and handles as they were, so the adapter stays COMPILED.
C20_RejectedChangesNothing ==
    /\ [](\A a \in Adapters : Compiled(ad[a]) => RejectsBadArguments(ad[a]))
    /\ [][(lastOp'.op \in DataOps /\ lastOp'.res \in Rejections)
            => /\ lastOp'.calls = <<>> /\ lastOp'.ub = "none"
               /\ ad' = ad /\ heap' = heap
               /\ Compiled(ad[lastOp'.a]) => Compiled(ad'[lastOp'.a])]_vars

\* a compiled ForgeBackendCAPI refused a forward() with wrong counts
C20_Witness ==
    /\ kind = "ForgeBackendCAPI"
    /\ lastOp.op = "forward" /\ lastOp.res = "CountMismatch"
    /\ lastOp.calls = <<>>
    /\ Compiled(ad[lastOp.a])

\* source node indices i # j of G that the node-id map sends to one target id
Collisions(G) ==
    {p \in (0..(nodeCount(G) - 1)) \X (0..(nodeCount(G) - 1)) :
        /\ p[1] < p[2] /\ p[2] < Len(NodeIdMapOf(G))
        /\ NodeIdMapOf(G)[p[1] + 1] = NodeIdMapOf(G)[p[2] + 1]}

\* C21: after a compile() that translated G and returned normally, no two
\* distinct source node indices of G have the same target id in the node-id map.
C21_NodeIdMapInjective ==
    (lastOp.op = "compile" /\ lastOp.res = "ok" /\ ~lastOp.skipped)
        => Collisions(lastOp.G) = {}

\* C21 (amended): after a compile() that translated G and returned normally,
\* two distinct source node indices have the same target id only if both are
\* CONSTANT nodes with the same pool index; the node-id map has one entry per
\* source node.
C21_InjectiveUpToSharedConstants ==
    (lastOp.op = "compile" /\ lastOp.res = "ok" /\ ~lastOp.skipped)
        => /\ Len(NodeIdMapOf(lastOp.G)) = nodeCount(lastOp.G)
           /\ \A p \in Collisions(lastOp.G) :
                 /\ lastOp.G.nodes[p[1] + 1].op = "CONSTANT"
                 /\ lastOp.G.nodes[p[2] + 1].op = "CONSTANT"
                 /\ lastOp.G.nodes[p[1] + 1].imm = lastOp.G.nodes[p[2] + 1].imm

\* a graph with two CONSTANT nodes of one pool index and two inputs or
\* operation nodes was translated
C21_Witness ==
    /\ lastOp.op = "compile" /\ lastOp.res = "ok" /\ ~lastOp.skipped
    /\ Collisions(lastOp.G) = {<<1, 2>>}
    /\ nodeCount(lastOp.G) = Len(NodeIdMapOf(lastOp.G))
    /\ Cardinality(Range(NodeIdMapOf(lastOp.G))) = nodeCount(lastOp.G) - 1

\* the Forge graphs that live kernels were compiled from
KernelGraphs ==
    {heap[heap[h].g].tg : h \in {k \in Live(heap) : /\ heap[k].type = "kernel"
                                                      /\ heap[k].g # NullH
                                                      /\ heap[heap[k].g].type = "graph"}}

\* C22: in every variant, gradient propagation has run on the graph of every
\* compiled kernel, after the diff inputs were marked: no kernel exists whose
\* graph has a marked diff input and needsGradient false on every node, and
\* after a compile() that returned normally the adapter's graph is propagated.
C22_PropagatedBeforeKernel ==
    /\ \A tg \in KernelGraphs :
          /\ tg.propagated
          /\ tg.diffInputs # <<>>
                => \E n \in 1..Len(tg.nodes) : tg.nodes[n].needsGradient
    /\ (lastOp.op = "compile" /\ lastOp.res = "ok")
          => TargetGraphOf(ad[lastOp.a]).propagated

\* the handles named in a destroy log
Destroyed(log) == {log[i].h : i \in 1..Len(log)}

\* C23: a ForgeBackendCAPI compile(G) on an adapter that holds a kernel and
\* remembers nodeCount(G) returns normally and changes nothing: no handle is
\* destroyed or created, both id lists and the remembered count stay.  Any
\* other compile(G) first destroys every handle the adapter held, and when it
\* returns normally the adapter is COMPILED on new handles, holds G's
\* translation and id lists and remembers nodeCount(G).
C23_GuardIsNoOp ==
    [][(kind = "ForgeBackendCAPI" /\ lastOp'.op = "compile")
        => IF /\ ad[lastOp'.a].kernel_ # NullH
              /\ ad[lastOp'.a].lastNodeCount_ = nodeCount(lastOp'.G)
           THEN /\ lastOp'.res = "ok" /\ lastOp'.skipped
                /\ destroyLog' = <<>>
                /\ ad' = ad /\ heap' = heap
           ELSE /\ ~lastOp'.skipped
                /\ Destroyed(destroyLog') = Held(ad[lastOp'.a])
                /\ lastOp'.res = "ok"
                     => /\ Compiled(ad'[lastOp'.a])
                        /\ Cardinality(Held(ad'[lastOp'.a])) = Len(HandleTypes)
                        /\ Held(ad'[lastOp'.a]) \subseteq Live(heap')
                        /\ ad'[lastOp'.a].lastNodeCount_ = nodeCount(lastOp'.G)
                        /\ ad'[lastOp'.a].inputIds_
                             = Translate(kind, lastOp'.G, NoFail, <<>>, <<>>).inputIds
                        /\ ad'[lastOp'.a].outputIds_
                             = Translate(kind, lastOp'.G, NoFail, <<>>, <<>>).outputIds
                        /\ heap'[ad'[lastOp'.a].graph_].tg
                             = Translate(kind, lastOp'.G, NoFail, <<>>, <<>>).tg]_vars

\* a guard-skipped compile() of a graph other than the one the adapter holds
C23_Witness ==
    /\ kind = "ForgeBackendCAPI"
    /\ lastOp.op = "compile" /\ lastOp.skipped /\ destroyLog = <<>>
    /\ ad[lastOp.a].lastNodeCount_ = nodeCount(lastOp.G)
    /\ TargetGraphOf(ad[lastOp.a]) # Translate(kind, lastOp.G, NoFail, <<>>, <<>>).tg

\* gradient entry of node wrt in the execution buffer after the first i native
\* calls of a log, when it held acc before: clear_gradients zeroes it, an
\* execution adds the gradient of that run to it
RECURSIVE GradientBuffer(_, _, _, _, _, _, _)
GradientBuffer(tg, calls, x, g, wrt, i, acc) ==
    IF i = 0 THEN acc
    ELSE IF calls[i].fn = "forge_buffer_clear_gradients" THEN 0
    ELSE IF calls[i].fn = "forge_execute"
    THEN GradientBuffer(tg, calls, x, g, wrt, i - 1, acc)
           + Gradient(tg, calls, x, g, wrt, 1)
    ELSE GradientBuffer(tg, calls, x, g, wrt, i - 1, acc)

\* positions of the calls of function fn in a log
CallsOf(calls, fn) == {i \in 1..Len(calls) : calls[i].fn = fn}
\* what the gradient entries may hold from earlier executions
PriorGradients == {0, 1, 3}
ExecOps == {"forward", "forwardAndBackward"}

\* C24: every forward()/forwardAndBackward() that reaches the kernel clears
\* the gradients once, executes once right after that, writes inputs only
\* before and reads results only after the execution and only when it
\* succeeded; so each gradient it returns is the gradient at the inputs
\* currently set, whatever earlier executions left in the gradient entries.
C24_ClearBeforeExecute ==
    (lastOp.op \in ExecOps /\ lastOp.res \in {"ok", "ExecutionFailed"})
        => /\ \E c \in 1..Len(lastOp.calls) :
                 /\ CallsOf(lastOp.calls, "forge_buffer_clear_gradients") = {c}
                 /\ CallsOf(lastOp.calls, "forge_execute") = {c + 1}
                 /\ \A i \in 1..Len(lastOp.calls) :
                       /\ lastOp.calls[i].fn \in InputWrites => i < c
                       /\ lastOp.calls[i].fn \in OutputReads \cup GradientReads
                             => i > c + 1 /\ lastOp.res = "ok"
           /\ \A i \in 1..Len(lastOp.calls) :
                 lastOp.calls[i].fn \in GradientReads
                   => \A x \in [1..Len(ad[lastOp.a].inputIds_) -> LaneValues],
                         g \in GarbageValues, acc \in PriorGradients :
                         GradientBuffer(TargetGraphOf(ad[lastOp.a]), lastOp.calls, x, g,
                                        lastOp.calls[i].id, i, acc)
                           = Gradient(TargetGraphOf(ad[lastOp.a]), lastOp.calls, x, g,
                                      lastOp.calls[i].id, 1)

\* a forwardAndBackward() returned the gradients of two inputs
C24_Witness ==
    /\ lastOp.op = "forwardAndBackward" /\ lastOp.res = "ok"
    /\ Cardinality({i \in 1..Len(lastOp.calls) :
                       lastOp.calls[i].fn \in GradientReads}) = 2
    /\ CallsOf(lastOp.calls, "forge_buffer_clear_gradients") # {}

\* C25: a forward()/forwardAndBackward() whose kernel execution fails throws
\* after one clear_gradients and one forge_execute (no second attempt), has
\* read no output and no gradient into the caller's storage, and leaves the
\* adapter members and every native handle as they were; nothing is destroyed.
C25_ExecutionFailure ==
    [][(lastOp'.op \in ExecOps /\ lastOp'.res = "ExecutionFailed")
        => /\ \A i \in 1..Len(lastOp'.calls) :
                 lastOp'.calls[i].fn \notin OutputReads \cup GradientReads
           /\ Cardinality(CallsOf(lastOp'.calls, "forge_execute")) = 1
           /\ Cardinality(CallsOf(lastOp'.calls, "forge_buffer_clear_gradients")) = 1
           /\ \A c \in CallsOf(lastOp'.calls, "forge_buffer_clear_gradients") :
                 /\ c + 1 \in CallsOf(lastOp'.calls, "forge_execute")
                 /\ c + 1 = Len(lastOp'.calls)
           /\ lastOp'.ub = "none"
           /\ ad' = ad /\ heap' = heap /\ destroyLog' = <<>>
           /\ Compiled(ad'[lastOp'.a])]_vars

\* a forwardAndBackward() on a compiled adapter with inputs and outputs failed
\* in forge_execute
C25_Witness ==
    /\ lastOp.op = "forwardAndBackward" /\ lastOp.res = "ExecutionFailed"
    /\ ad[lastOp.a].inputIds_ # <<>> /\ ad[lastOp.a].outputIds_ # <<>>
    /\ CallsOf(lastOp.calls, "forge_execute") # {}

\* positions inside loadCustomBackendFromEnv()
LoadSteps == {"call_once", "getenv", "forge_load_backend", "return"}

\* C26: no step of a thread inside the backend load ends its compile(): from
\* there the thread only moves on, to config creation at the end, whether
\* forge_load_backend succeeded or failed; a compile() ends with an exception
\* only in translation, in config creation or in a later step.
C26_LoadFailureDoesNotAbort ==
    [][\A t \in Threads :
         /\ (load.pc[t] \in LoadSteps /\ load'.pc[t] # load.pc[t])
               => /\ load'.pc[t] \in (LoadSteps \cup {"config"}) \ {"call_once"}
                  /\ load'.thrown[t] = load.thrown[t]
         /\ (load.pc[t] = "return" /\ load'.pc[t] # "return")
               => load'.pc[t] = "config" /\ loadOnce'
         /\ (load'.thrown[t] # load.thrown[t] /\ load'.thrown[t] # "none")
               => /\ load.pc[t] \in {"idle", "config", "instructionSet"}
                  /\ load'.thrown[t] \in {"translate", "config"} \cup LaterSteps]_vars

\* the load failed; after it one compile() returned normally and one failed
\* at the instruction-set selection
C26_Witness ==
    /\ kind = "ForgeBackend" /\ loadOnce
    /\ load.attempts = 1 /\ load.result = "failed"
    /\ \E t1 \in Threads, t2 \in Threads :
          /\ load.pc[t1] = "idle" /\ load.thrown[t1] = "none"
          /\ load.pc[t2] = "idle" /\ load.thrown[t2] = "instructionSet"

\* the handles of adapter record adr form a chain in creation order, and its
\* kernel and buffer were created from the graph (and kernel) it holds
HandleChain(adr) ==
    /\ adr.buffer_ # NullH => adr.kernel_ # NullH
    /\ adr.kernel_ # NullH => adr.config_ # NullH
    /\ adr.config_ # NullH => adr.graph_ # NullH
    /\ adr.kernel_ # NullH
          => heap[adr.kernel_].g = adr.graph_ /\ heap[adr.kernel_].cfg = adr.config_
    /\ adr.buffer_ # NullH
          => heap[adr.buffer_].g = adr.graph_ /\ heap[adr.buffer_].k = adr.kernel_

\* C27: in every reachable state, in every variant, each adapter's handles
\* form a chain: buffer implies kernel, kernel implies config, config implies
\* graph, and the kernel and buffer held were created from the graph held.
C27_HandleChain == \A a \in Adapters : HandleChain(ad[a])

\* a compile() failed at forge_compile on an adapter that was move-assigned:
\* graph and config held, no kernel, no buffer
C27_Witness ==
    /\ lastOp.op = "compile" /\ lastOp.res = "kernel"
    /\ ad[lastOp.a].graph_ # NullH /\ ad[lastOp.a].config_ # NullH
    /\ ad[lastOp.a].kernel_ = NullH /\ ad[lastOp.a].buffer_ = NullH
    /\ \E b \in Adapters \ {lastOp.a} : ad[b].alive /\ Compiled(ad[b])

\* numInputs() / numOutputs(): the sizes of the id lists
numInputs(adr) == Len(adr.inputIds_)
numOutputs(adr) == Len(adr.outputIds_)

\* C28: an adapter that is not COMPILED reports numInputs() = 0 and
\* numOutputs() = 0 and both id lists are empty, also after a compile() that
\* failed.
C28_UncompiledHasNoIds ==
    \A a \in Adapters :
       (ad[a].alive /\ ~Compiled(ad[a]))
          => /\ numInputs(ad[a]) = 0 /\ numOutputs(ad[a]) = 0
             /\ ad[a].inputIds_ = <<>> /\ ad[a].outputIds_ = <<>>

\* the input-id list of adapter record adr matches the declared diff inputs of
\* source graph G position by position, the same nodes are marked on the Forge
\* graph, and input k is written to and its gradient read from the same node
InputsFollow(adr, G) ==
    /\ Len(adr.inputIds_) = Len(G.input_ids)
    /\ \A k \in 1..Len(adr.inputIds_) :
          /\ G.input_ids[k] < Len(NodeIdMapOf(G))
          /\ adr.inputIds_[k] = NodeIdMapOf(G)[G.input_ids[k] + 1]
    /\ TargetGraphOf(adr).diffInputs = adr.inputIds_
    /\ IdsOf(RunCalls(kind, adr), InputWrites) = adr.inputIds_
    /\ IdsOf(RunCalls(kind, adr), GradientReads) = adr.inputIds_

\* C29: after a compile() of a valid graph G that returned normally, entry k
\* of the input-id list is the target id of G's k-th declared diff input, the
\* marked diff inputs are that list in that order, and the gradient returned
\* for input k is read from the node that input k is written to.
C29_InputsAreDiffInputs ==
    (lastOp.op = "compile" /\ lastOp.res = "ok" /\ ValidGraph(lastOp.G))
        => InputsFollow(ad[lastOp.a], lastOp.G)

\* every operand id given to forge_graph_add_node for an operation node of
\* Forge graph tg (all three operand fields, used or not) is the id of a node
\* created before it; ids are 0-based creation positions
TargetTopologicalOrder(tg) ==
    \A j \in 1..Len(tg.nodes) :
        tg.nodes[j].op \notin {"INPUT", "CONSTANT"}
            => /\ tg.nodes[j].a < j - 1
               /\ tg.nodes[j].b < j - 1
               /\ tg.nodes[j].c < j - 1

\* C30: in every variant, the Forge graph held after a compile() that returned
\* normally for a source graph in strict topological order is in topological
\* order: all three operand ids of every operation node are ids of nodes
\* created earlier.
C30_TargetTopologicalOrder ==
    (lastOp.op = "compile" /\ lastOp.res = "ok" /\ TopologicalOrder(lastOp.G))
        => TargetTopologicalOrder(TargetGraphOf(ad[lastOp.a]))

\* a compile() of a topologically ordered graph with a shared constant and an
\* operation node has translated and built the Forge graph
C30_Witness ==
    /\ lastOp.op = "compile" /\ lastOp.res = "ok" /\ ~lastOp.skipped
    /\ lastOp.G = GShare
    /\ \E j \in 1..Len(TargetGraphOf(ad[lastOp.a]).nodes) :
          TargetGraphOf(ad[lastOp.a]).nodes[j].op \notin {"INPUT", "CONSTANT"}

====
